---- MODULE Spec2Model ----
(***************************************************************************)
(* Model of the parking-enforcement Flask application (src/app.py).        *)
(*                                                                         *)
(* The state is the SQLite database (tables violations and properties),    *)
(* the upload folder, the wall clock, for every logged-in officer the      *)
(* position inside the handler that serves the officer's request and the   *)
(* handler's local variables, and the response sent by the last step.      *)
(*                                                                         *)
(* A handler is cut into steps at the points where it talks to the store:  *)
(* /log   : LogBegin -> LogSelect -> LogInsert -> LogCommit, and           *)
(*          LogStoreError from any step that uses the store                *)
(* /      : IndexLatest -> IndexHistory (POST), IndexGet (GET)             *)
(* /tow   : TowBuild -> TowSend (the PDF is written to a file, then the    *)
(*          file is read back and sent)                                    *)
(* A row of violations is the tuple that SELECT * returns, in the column   *)
(* order of CREATE TABLE; Col(row, i) is Python's row[i].                  *)
(***************************************************************************)
EXTENDS Integers, Sequences, FiniteSets, TLC

\* ------------------------------------------------------------------ bounds
MaxRecords == 3      \* citations accepted (committed or in flight) in one run
MaxClock == 60       \* last wall-clock instant, in seconds after midnight
MaxTowAfter == 3     \* largest tow_after value a properties row carries

\* --------------------------------------------------------------- constants
SecondsPerMinute == 60     \* "%H:%M" drops the seconds
StartClock == SecondsPerMinute - 1   \* the run starts at 00:00:59
TowThreshold == 2          \* warnings >= 2
ColWarnings == 5           \* record[5] in TEMPLATE
ColShownStatus == 7        \* record[7] in TEMPLATE

Officers == {"alice", "bob"}       \* logged-in users, one request each at a time
Null == "NULL"                     \* Python None / SQL NULL in a text column
NoRow == << >>                     \* fetchone() found nothing
NoFile == << >>                    \* filename = None
NoWorker == "none"
NoDoc == << >>                     \* no such file / no document in the response

\* Raw plate inputs, as sequences of characters.
RawPlates == { << >>, <<"a", "1">>, <<"A", "1">> }

\* The /log requests submitted: the logged-in officer, the plate, the
\* optional text fields (absent ones are None), whether a photo is attached.
Forms ==
    { [user |-> "alice", plate |-> << >>, state |-> Null, vehicle |-> Null,
       property |-> Null, notes |-> Null, photo |-> FALSE],
      [user |-> "alice", plate |-> <<"a", "1">>, state |-> "CA",
       vehicle |-> Null, property |-> "Lot A", notes |-> Null, photo |-> TRUE],
      [user |-> "bob", plate |-> <<"A", "1">>, state |-> Null,
       vehicle |-> Null, property |-> Null, notes |-> Null, photo |-> FALSE] }

\* The dashboard searches submitted: the logged-in officer and the plate.
Searches == { [user |-> "bob", plate |-> raw] : raw \in RawPlates }

\* The /tow/<plate> requests submitted: the logged-in officer and the plate
\* of the URL.
TowRequests == { [user |-> u, plate |-> <<"A", "1">>] : u \in Officers }

VARIABLES
    violations,   \* committed rows of table violations, in id order
    properties,   \* rows of table properties
    uploads,      \* files in UPLOAD_FOLDER
    pdfs,         \* tow_<plate>.pdf files in the working directory, by name
    clock,        \* wall clock, seconds
    pc,           \* per officer: position in the handler being run
    req,          \* per officer: the handler's local variables
    writer,       \* officer whose connection holds the write transaction
    pending,      \* the row inserted in the open write transaction
    response      \* the response sent by the step just taken, if any

vars == <<violations, properties, uploads, pdfs, clock, pc, req, writer,
          pending, response>>

\* ------------------------------------------------------------ pure helpers

\* str.upper() on one character of the model's alphabet.
UpperChar(c) ==
    CASE c = "a" -> "A"
      [] c = "b" -> "B"
      [] OTHER -> c

\* Variant of Upper that leaves the plate as typed.
Upper_AsTyped(s) == s

\* str.upper(): character by character.
Upper(s) == [i \in 1..Len(s) |-> UpperChar(s[i])]

\* The minute strings strftime("%Y-%m-%d %H:%M") produces, in increasing
\* (lexicographic = chronological) order.
TimeStr == << "2026-01-01 00:00", "2026-01-01 00:01",
              "2026-01-01 00:02", "2026-01-01 00:03" >>

\* datetime.now().strftime("%Y-%m-%d %H:%M") at instant t (seconds).
Strftime(t) == TimeStr[(t \div SecondsPerMinute) + 1]

\* Position of a minute string in the text ordering SQLite sorts by.
TsRank(s) == CHOOSE i \in 1..Len(TimeStr) : TimeStr[i] = s

\* pdf = f"tow_{plate}.pdf"
PdfName(plate) == <<"tow", plate>>

\* The content of the document: the "Plate:" and "Authorized by:" paragraphs
\* (the title is fixed; the "Date:" paragraph is left out of the model).
TowDocument(plate, user) == [plate |-> plate, officer |-> user]

\* f"{plate}_{int(datetime.now().timestamp())}.jpg"
PhotoName(plate, t) == <<plate, t>>

\* Python row[i] on a SELECT * tuple (0-based).
Col(row, i) == row[i + 1]

\* Named access to the columns of violations, in CREATE TABLE order.
RowId(r) == r[1]
RowPlate(r) == r[2]
RowProperty(r) == r[5]
RowWarnings(r) == r[6]
RowFirstSeen(r) == r[7]
RowLastSeen(r) == r[8]
RowStatus(r) == r[9]
RowPhoto(r) == r[11]
RowOfficer(r) == r[12]

\* Indices of the rows WHERE plate = ?
PlateIds(v, plate) == {i \in 1..Len(v) : RowPlate(v[i]) = plate}

\* SELECT ... WHERE plate=? ORDER BY id DESC LIMIT 1  (fetchone)
Latest(v, plate) ==
    IF PlateIds(v, plate) = {} THEN NoRow
    ELSE v[CHOOSE i \in PlateIds(v, plate) :
               \A j \in PlateIds(v, plate) : j <= i]

\* Variant of LatestWarnings without the WHERE plate=? filter: the count of
\* the newest row of the table, whatever its plate.
LatestWarnings_AnyPlate(v, plate) ==
    IF Len(v) = 0 THEN NoRow ELSE << RowWarnings(v[Len(v)]) >>

\* SELECT warning_count ... WHERE plate=? ORDER BY id DESC LIMIT 1  (fetchone)
LatestWarnings(v, plate) ==
    IF Latest(v, plate) = NoRow THEN NoRow
    ELSE << RowWarnings(Latest(v, plate)) >>

\* Variant of NextWarnings that forgets the increment.
NextWarnings_NoIncrement(row) == IF row # NoRow THEN Col(row, 0) ELSE 1

\* warnings = row[0] + 1 if row else 1
NextWarnings(row) == IF row # NoRow THEN Col(row, 0) + 1 ELSE 1

\* status = "TOW" if warnings >= 2 else "WARNING"
StatusFor(warnings) == IF warnings >= TowThreshold THEN "TOW" ELSE "WARNING"

\* Variant of FirstSeenFor that stamps first_seen on every record.
FirstSeenFor_Always(warnings, now) == now

\* now if warnings == 1 else None
FirstSeenFor(warnings, now) == IF warnings = 1 THEN now ELSE Null

\* The tuple of the INSERT, with the id AUTOINCREMENT gives it.
NewRow(v, r, user) ==
    << Len(v) + 1, r.plate, r.state, r.vehicle, r.property, r.warnings,
       FirstSeenFor(r.warnings, r.now), r.now, r.status, r.notes,
       r.filename, user >>

\* All orders in which SELECT ... WHERE plate=? ORDER BY last_seen DESC may
\* return the plate's rows: last_seen does not increase along the result;
\* the statement names no second sort key, so rows with equal last_seen
\* come in an order SQL leaves open.
HistoryResults(v, plate) ==
    LET ids == PlateIds(v, plate)
        orders == {f \in Permutations(ids) :
                      \A a, b \in ids :
                          a < b => TsRank(RowLastSeen(v[f[a]]))
                                      >= TsRank(RowLastSeen(v[f[b]]))}
        \* the k-th smallest id of the plate
        nth(k) == CHOOSE i \in ids : Cardinality({j \in ids : j <= i}) = k
    IN {[k \in 1..Cardinality(ids) |-> v[f[nth(k)]]] : f \in orders}

\* {% if record %} ... {% if record[7] == 'TOW' %} <a href="/tow/...">
TowLinkOffered(record) ==
    /\ record # NoRow
    /\ Col(record, ColShownStatus) = "TOW"

\* <b>Status:</b> {{record[7]}}
ShownStatus(record) == Col(record, ColShownStatus)

\* <b>Warnings:</b> {{record[5]}}
ShownWarnings(record) == Col(record, ColWarnings)

\* ------------------------------------------------------------------- state

LogPcs == {"select", "insert", "commit"}

NoReq == [plate |-> << >>, now |-> Null, filename |-> NoFile, state |-> Null,
          vehicle |-> Null, property |-> Null, notes |-> Null,
          row |-> NoRow, warnings |-> 0, status |-> Null, record |-> NoRow]

\* A response: the request method, the HTTP status, for a failed /log the
\* photo file the request had saved, for the dashboard the template's
\* record and history and the plate searched, for /tow the route, the
\* officer who asked, the plate asked for and the document sent.
NoResponse == [method |-> Null, code |-> 0, filename |-> NoFile,
               plate |-> << >>, record |-> NoRow, history |-> << >>,
               route |-> Null, user |-> NoWorker, doc |-> NoDoc]

PropertyRow(t) == [id |-> 1, name |-> "Lot A", tow_after |-> t]

\* init_db(): the tables exist; violations is empty.  No handler reads or
\* writes the properties table: it holds what the operator put there, here
\* one property with a tow_after other than the default.
Init ==
    /\ violations = << >>
    /\ properties = {PropertyRow(MaxTowAfter)}
    /\ uploads = {}
    /\ pdfs = [f \in {PdfName(t.plate) : t \in TowRequests} |-> NoDoc]
    /\ clock = StartClock
    /\ pc = [p \in Officers |-> "idle"]
    /\ req = [p \in Officers |-> NoReq]
    /\ writer = NoWorker
    /\ pending = NoRow
    /\ response = NoResponse

\* ------------------------------------------------------------- wall clock

\* datetime.now() moves on between two requests.
Tick ==
    /\ clock + 1 <= MaxClock
    /\ clock' = clock + 1
    /\ response' = NoResponse
    /\ UNCHANGED <<violations, properties, uploads, pdfs, pc, req, writer, pending>>

\* ------------------------------------------------------------ /log handler

InFlight == {q \in Officers : pc[q] \in LogPcs}

\* request.form["plate"] on a form without that key: werkzeug answers 400
\* before anything else runs.
LogBadRequest(p) ==
    /\ pc[p] = "idle"
    /\ response' = [NoResponse EXCEPT !.method = "POST", !.code = 400]
    /\ UNCHANGED <<violations, properties, uploads, pdfs, clock, pc, req, writer,
                   pending>>

\* Lines 134-141: normalise the plate, take the minute, save the photo.
LogBegin(p, form) ==
    /\ p = form.user
    /\ pc[p] = "idle"
    /\ Len(violations) + Cardinality(InFlight) < MaxRecords
    /\ LET plate == Upper(form.plate)
           filename == IF form.photo THEN PhotoName(plate, clock) ELSE NoFile
       IN /\ req' = [req EXCEPT ![p] =
                        [NoReq EXCEPT !.plate = plate,
                                      !.now = Strftime(clock),
                                      !.filename = filename,
                                      !.state = form.state,
                                      !.vehicle = form.vehicle,
                                      !.property = form.property,
                                      !.notes = form.notes]]
          /\ uploads' = IF form.photo THEN uploads \cup {filename} ELSE uploads
    /\ pc' = [pc EXCEPT ![p] = "select"]
    /\ response' = NoResponse
    /\ UNCHANGED <<violations, properties, pdfs, clock, writer, pending>>

\* Variant of LogSelect that escalates at the tow_after of the citation's
\* property instead of the fixed 2.
LogSelect_PerProperty(p) ==
    /\ pc[p] = "select"
    /\ LET row == LatestWarnings(violations, req[p].plate)
           warnings == NextWarnings(row)
           named == {r \in properties : r.name = req[p].property}
           towAfter == IF named = {} THEN TowThreshold
                       ELSE (CHOOSE r \in named : TRUE).tow_after
       IN req' = [req EXCEPT ![p].row = row,
                             ![p].warnings = warnings,
                             ![p].status = IF warnings >= towAfter
                                           THEN "TOW" ELSE "WARNING"]
    /\ pc' = [pc EXCEPT ![p] = "insert"]
    /\ response' = NoResponse
    /\ UNCHANGED <<violations, properties, uploads, pdfs, clock, writer, pending>>

\* Lines 143-150: read the plate's latest warning_count (committed rows
\* only), compute the next count and the status.
LogSelect(p) ==
    /\ pc[p] = "select"
    /\ LET row == LatestWarnings(violations, req[p].plate)
           warnings == NextWarnings(row)
       IN req' = [req EXCEPT ![p].row = row,
                             ![p].warnings = warnings,
                             ![p].status = StatusFor(warnings)]
    /\ pc' = [pc EXCEPT ![p] = "insert"]
    /\ response' = NoResponse
    /\ UNCHANGED <<violations, properties, uploads, pdfs, clock, writer, pending>>

\* Lines 152-169: the INSERT opens the write transaction (one writer at a
\* time in SQLite); the row is not visible to other connections yet.
LogInsert(p) ==
    /\ pc[p] = "insert"
    /\ writer = NoWorker
    /\ writer' = p
    /\ pending' = NewRow(violations, req[p], p)
    /\ pc' = [pc EXCEPT ![p] = "commit"]
    /\ response' = NoResponse
    /\ UNCHANGED <<violations, properties, uploads, pdfs, clock, req>>

\* Variant of LogCommit that keeps one row per plate: the new row replaces
\* the plate's latest row when there is one.
LogCommit_Upsert(p) ==
    /\ pc[p] = "commit"
    /\ writer = p
    /\ violations' =
          IF Latest(violations, RowPlate(pending)) = NoRow
          THEN Append(violations, pending)
          ELSE [i \in 1..Len(violations) |->
                   IF violations[i] = Latest(violations, RowPlate(pending))
                   THEN [pending EXCEPT ![1] = i]
                   ELSE violations[i]]
    /\ writer' = NoWorker
    /\ pending' = NoRow
    /\ pc' = [pc EXCEPT ![p] = "idle"]
    /\ response' = [NoResponse EXCEPT !.method = "POST", !.code = 302]
    /\ req' = [req EXCEPT ![p] = NoReq]
    /\ UNCHANGED <<properties, uploads, pdfs, clock>>

\* Lines 170-172: commit, then redirect("/").
LogCommit(p) ==
    /\ pc[p] = "commit"
    /\ writer = p
    /\ violations' = Append(violations, pending)
    /\ writer' = NoWorker
    /\ pending' = NoRow
    /\ pc' = [pc EXCEPT ![p] = "idle"]
    /\ response' = [NoResponse EXCEPT !.method = "POST", !.code = 302]
    /\ req' = [req EXCEPT ![p] = NoReq]
    /\ UNCHANGED <<properties, uploads, pdfs, clock>>

\* Line 143: a sqlite3 error in the with block (database is locked, disk
\* I/O error) on the SELECT, the INSERT or the commit: the connection's
\* context manager rolls the transaction back and the exception leaves the
\* handler, which answers 500.  Nothing removes the photo saved at line 141.
LogStoreError(p) ==
    /\ pc[p] \in LogPcs
    /\ writer' = IF writer = p THEN NoWorker ELSE writer
    /\ pending' = IF writer = p THEN NoRow ELSE pending
    /\ pc' = [pc EXCEPT ![p] = "idle"]
    /\ response' = [NoResponse EXCEPT !.method = "POST", !.code = 500,
                                      !.filename = req[p].filename]
    /\ req' = [req EXCEPT ![p] = NoReq]
    /\ UNCHANGED <<violations, properties, uploads, pdfs, clock>>

\* -------------------------------------------------------- / (dashboard)

\* GET /: record = None, history = [].
IndexGet(p) ==
    /\ pc[p] = "idle"
    /\ response' = [NoResponse EXCEPT !.method = "GET", !.code = 200]
    /\ UNCHANGED <<violations, properties, uploads, pdfs, clock, pc, req, writer,
                   pending>>

\* Lines 116-121: POST /, the latest-by-plate lookup.
IndexLatest(p, search) ==
    /\ p = search.user
    /\ pc[p] = "idle"
    /\ LET plate == Upper(search.plate)
       IN req' = [req EXCEPT ![p] =
                     [NoReq EXCEPT !.plate = plate,
                                   !.record = Latest(violations, plate)]]
    /\ pc' = [pc EXCEPT ![p] = "history"]
    /\ response' = NoResponse
    /\ UNCHANGED <<violations, properties, uploads, pdfs, clock, writer, pending>>

\* Variant of IndexHistory that answers 404 when the plate has no history.
IndexHistory_NotFound(p) ==
    /\ pc[p] = "history"
    /\ \E h \in HistoryResults(violations, req[p].plate) :
          response' = IF h = << >>
                      THEN [NoResponse EXCEPT !.method = "POST", !.code = 404,
                                              !.plate = req[p].plate]
                      ELSE [NoResponse EXCEPT !.method = "POST",
                                              !.code = 200,
                                              !.plate = req[p].plate,
                                              !.record = req[p].record,
                                              !.history = h]
    /\ pc' = [pc EXCEPT ![p] = "idle"]
    /\ req' = [req EXCEPT ![p] = NoReq]
    /\ UNCHANGED <<violations, properties, uploads, pdfs, clock, writer, pending>>

\* Variant of IndexHistory in which looking a plate up counts as a sighting:
\* it bumps the warning_count of the plate's latest row.
IndexHistory_Escalates(p) ==
    /\ pc[p] = "history"
    /\ \E h \in HistoryResults(violations, req[p].plate) :
          response' = [NoResponse EXCEPT !.method = "POST",
                                         !.code = 200,
                                         !.plate = req[p].plate,
                                         !.record = req[p].record,
                                         !.history = h]
    /\ violations' =
          [i \in 1..Len(violations) |->
              IF violations[i] = Latest(violations, req[p].plate)
              THEN [violations[i] EXCEPT ![6] = @ + 1]
              ELSE violations[i]]
    /\ pc' = [pc EXCEPT ![p] = "idle"]
    /\ req' = [req EXCEPT ![p] = NoReq]
    /\ UNCHANGED <<properties, uploads, pdfs, clock, writer, pending>>

\* Lines 122-126: the history query, then the template is rendered with
\* record and history.
IndexHistory(p) ==
    /\ pc[p] = "history"
    /\ \E h \in HistoryResults(violations, req[p].plate) :
          response' = [NoResponse EXCEPT !.method = "POST",
                                         !.code = 200,
                                         !.plate = req[p].plate,
                                         !.record = req[p].record,
                                         !.history = h]
    /\ pc' = [pc EXCEPT ![p] = "idle"]
    /\ req' = [req EXCEPT ![p] = NoReq]
    /\ UNCHANGED <<violations, properties, uploads, pdfs, clock, writer, pending>>

\* ------------------------------------------------------ /tow/<plate>

\* Variant of TowBuild that checks the plate's latest status first and
\* refuses (404) unless it is TOW.
TowBuild_Checked(p, t) ==
    /\ p = t.user
    /\ pc[p] = "idle"
    /\ t.plate # << >>
    /\ IF /\ Latest(violations, t.plate) # NoRow
          /\ RowStatus(Latest(violations, t.plate)) = "TOW"
       THEN /\ pdfs' = [pdfs EXCEPT ![PdfName(t.plate)] =
                            TowDocument(t.plate, p)]
            /\ req' = [req EXCEPT ![p] = [NoReq EXCEPT !.plate = t.plate]]
            /\ pc' = [pc EXCEPT ![p] = "send"]
            /\ response' = NoResponse
       ELSE /\ response' = [NoResponse EXCEPT !.method = "GET", !.code = 404,
                                              !.route = "/tow", !.user = p,
                                              !.plate = t.plate]
            /\ UNCHANGED <<pdfs, req, pc>>
    /\ UNCHANGED <<violations, properties, uploads, clock, writer, pending>>

\* Lines 177-191: the route matches a non-empty plate, taken as typed;
\* doc.build writes tow_<plate>.pdf with the plate and the caller's name.
TowBuild(p, t) ==
    /\ p = t.user
    /\ pc[p] = "idle"
    /\ t.plate # << >>
    /\ pdfs' = [pdfs EXCEPT ![PdfName(t.plate)] = TowDocument(t.plate, p)]
    /\ req' = [req EXCEPT ![p] = [NoReq EXCEPT !.plate = t.plate]]
    /\ pc' = [pc EXCEPT ![p] = "send"]
    /\ response' = NoResponse
    /\ UNCHANGED <<violations, properties, uploads, clock, writer, pending>>

\* Line 192: send_file(pdf) reads the file of that name as it is now.
TowSend(p) ==
    /\ pc[p] = "send"
    /\ response' = [NoResponse EXCEPT !.method = "GET", !.code = 200,
                                      !.route = "/tow", !.user = p,
                                      !.plate = req[p].plate,
                                      !.filename = PdfName(req[p].plate),
                                      !.doc = pdfs[PdfName(req[p].plate)]]
    /\ pc' = [pc EXCEPT ![p] = "idle"]
    /\ req' = [req EXCEPT ![p] = NoReq]
    /\ UNCHANGED <<violations, properties, uploads, pdfs, clock, writer,
                   pending>>

\* ------------------------------------------------------------ specification

Next ==
    \/ Tick
    \/ \E p \in Officers : LogBadRequest(p)
    \/ \E p \in Officers, form \in Forms : LogBegin(p, form)
    \/ \E p \in Officers : LogSelect(p)
    \/ \E p \in Officers : LogInsert(p)
    \/ \E p \in Officers : LogCommit(p)
    \/ \E p \in Officers : LogStoreError(p)
    \/ \E p \in Officers : IndexGet(p)
    \/ \E p \in Officers, search \in Searches : IndexLatest(p, search)
    \/ \E p \in Officers : IndexHistory(p)
    \/ \E p \in Officers, t \in TowRequests : TowBuild(p, t)
    \/ \E p \in Officers : TowSend(p)

Spec == Init /\ [][Next]_vars

\* The same server when citations are submitted one after another: a /log
\* request starts only when no other /log request is running.
LogBeginSerial(p, form) ==
    /\ InFlight = {}
    /\ LogBegin(p, form)

NextSerial ==
    \/ Tick
    \/ \E p \in Officers : LogBadRequest(p)
    \/ \E p \in Officers, form \in Forms : LogBeginSerial(p, form)
    \/ \E p \in Officers : LogSelect(p)
    \/ \E p \in Officers : LogInsert(p)
    \/ \E p \in Officers : LogCommit(p)
    \/ \E p \in Officers : LogStoreError(p)
    \/ \E p \in Officers : IndexGet(p)
    \/ \E p \in Officers, search \in Searches : IndexLatest(p, search)
    \/ \E p \in Officers : IndexHistory(p)
    \/ \E p \in Officers, t \in TowRequests : TowBuild(p, t)
    \/ \E p \in Officers : TowSend(p)

SpecSerial == Init /\ [][NextSerial]_vars

\* ------------------------------------------------------------- properties

Rows == 1..Len(violations)
StoredPlates == {RowPlate(violations[i]) : i \in Rows}

\* Position of row i among the rows of its plate, in insertion order.
Ordinal(i) ==
    Cardinality({j \in PlateIds(violations, RowPlate(violations[i])) : j <= i})

\* C1: when citations are submitted one after another (SpecSerial), the Nth
\* record of a plate has warning_count N, status WARNING for N = 1 and TOW
\* for N >= 2.
C1_SerialCounts ==
    \A i \in Rows :
        /\ RowWarnings(violations[i]) = Ordinal(i)
        /\ RowStatus(violations[i]) =
              IF Ordinal(i) = 1 THEN "WARNING" ELSE "TOW"

\* Three citations of one plate submitted in sequence: counts 1, 2, 3.
C1_Witness ==
    \E i \in Rows :
        /\ Ordinal(i) = 3
        /\ RowWarnings(violations[i]) = 3
        /\ RowStatus(violations[i]) = "TOW"

\* C2: the first two records of a plate, however their submissions
\* interleave, carry the warning_count values {1, 2}: never {1, 1}.
C2_NoLostUpdate ==
    \A plate \in StoredPlates :
        \A i, j \in PlateIds(violations, plate) :
            (Ordinal(i) = 1 /\ Ordinal(j) = 2) =>
                {RowWarnings(violations[i]), RowWarnings(violations[j])}
                    = {1, 2}

\* C3: a submission with the empty plate is rejected before the store is
\* touched: no /log request with the empty plate gets as far as the store
\* and no record with the empty plate is ever stored.
C3_EmptyPlateRejected ==
    /\ \A p \in Officers : pc[p] \in LogPcs => req[p].plate # << >>
    /\ \A i \in Rows : RowPlate(violations[i]) # << >>

\* C4: a rendered dashboard offers the tow-authorization link exactly when
\* the record returned by the latest-by-plate lookup has status TOW.
C4_TowLinkIffLatestTow ==
    (response.code = 200 /\ response.method = "POST") =>
        (TowLinkOffered(response.record) <=>
            (response.record # NoRow /\ RowStatus(response.record) = "TOW"))

\* C5: every stored record has first_seen set iff its warning_count is 1,
\* and a first_seen that is set equals the record's last_seen.
C5_FirstSeenIffFirst ==
    \A i \in Rows :
        /\ (RowFirstSeen(violations[i]) # Null)
              <=> (RowWarnings(violations[i]) = 1)
        /\ RowFirstSeen(violations[i]) # Null =>
              RowFirstSeen(violations[i]) = RowLastSeen(violations[i])

\* Two racing first citations of a plate (both count 1, both with
\* first_seen) followed by a record with count 2 and no first_seen.
C5_Witness ==
    \E i, j, k \in Rows :
        /\ i < j /\ j < k
        /\ RowPlate(violations[i]) = RowPlate(violations[j])
        /\ RowPlate(violations[j]) = RowPlate(violations[k])
        /\ RowWarnings(violations[i]) = 1 /\ RowWarnings(violations[j]) = 1
        /\ RowFirstSeen(violations[j]) = RowLastSeen(violations[j])
        /\ RowWarnings(violations[k]) = 2
        /\ RowFirstSeen(violations[k]) = Null

\* C6: every stored record has status TOW iff its warning_count >= 2 and
\* WARNING otherwise, whatever tow_after the properties table holds for the
\* property named in the citation.
C6_StatusFromGlobalThreshold ==
    \A i \in Rows :
        RowStatus(violations[i]) =
            IF RowWarnings(violations[i]) >= 2 THEN "TOW" ELSE "WARNING"

\* A second citation at a property whose tow_after is 3 is TOW all the same.
C6_Witness ==
    \E i \in Rows :
        /\ RowWarnings(violations[i]) = 2
        /\ RowStatus(violations[i]) = "TOW"
        /\ \E r \in properties :
              /\ r.name = RowProperty(violations[i])
              /\ r.tow_after > 2

\* C7: the history a search returns holds all records of the plate, in
\* non-increasing last_seen order, records with equal last_seen in
\* insertion (id) order.
C7_HistoryOrder ==
    (response.code = 200 /\ response.method = "POST") =>
        LET h == response.history IN
        /\ {h[k] : k \in 1..Len(h)}
              = {violations[i] : i \in PlateIds(violations, response.plate)}
        /\ \A a, b \in 1..Len(h) :
              a < b =>
                /\ TsRank(RowLastSeen(h[a])) >= TsRank(RowLastSeen(h[b]))
                /\ RowLastSeen(h[a]) = RowLastSeen(h[b]) =>
                      RowId(h[a]) < RowId(h[b])

\* C8: the warning_count values of a plate's records, in insertion order,
\* are positive and never decrease.
C8_CountsMonotone ==
    \A i, j \in Rows :
        (i < j /\ RowPlate(violations[i]) = RowPlate(violations[j])) =>
            /\ RowWarnings(violations[i]) >= 1
            /\ RowWarnings(violations[i]) <= RowWarnings(violations[j])

\* C9: a step that aborts a submission with a store failure (response 500)
\* commits no record and leaves no photo of that submission in the upload
\* folder.
C9_StoreFailureNoSideEffect ==
    [][response'.code = 500 =>
          /\ violations' = violations
          /\ response'.filename = NoFile \/ response'.filename \notin uploads'
      ]_vars

\* A step of officer p inside the dashboard handler.
DashboardStep(p) ==
    \/ pc[p] # pc'[p] /\ "history" \in {pc[p], pc'[p]}
    \/ pc[p] = "idle" /\ pc'[p] = "idle" /\ response'.code = 200

\* C10: a dashboard search changes nothing in the violations table, neither
\* committed nor pending.
C10_SearchReadOnly ==
    [][(\E p \in Officers : DashboardStep(p)) =>
          (violations' = violations /\ pending' = pending)]_vars

\* A search has returned a plate's history of two records, the latest TOW.
C10_Witness ==
    /\ response.code = 200
    /\ response.method = "POST"
    /\ Len(response.history) = 2
    /\ response.record # NoRow
    /\ RowStatus(response.record) = "TOW"

\* The rows of a plate, in insertion order.
PlateRows(v, plate) ==
    LET IsOwn(r) == RowPlate(r) = plate IN SelectSeq(v, IsOwn)

\* C11: a successful citation submission adds exactly one record, and no
\* step of any handler updates or deletes a stored record: the table only
\* grows, by appending.
C11_AppendOnly ==
    [][/\ \/ violations' = violations
          \/ /\ Len(violations') = Len(violations) + 1
             /\ SubSeq(violations', 1, Len(violations)) = violations
       /\ response'.code = 302 => Len(violations') = Len(violations) + 1
      ]_vars

\* A second citation of a plate has been committed next to the first.
C11_Witness ==
    /\ response.code = 302
    /\ \E i, j \in Rows :
          /\ i < j
          /\ RowPlate(violations[i]) = RowPlate(violations[j])

\* C12: a search for a plate without records ends with a page (200) that
\* holds no latest record and an empty history.
C12_UnknownPlateEmpty ==
    [][\A p \in Officers :
          (/\ pc[p] = "history" /\ pc'[p] = "idle"
           /\ PlateIds(violations, req[p].plate) = {}) =>
              /\ response'.code = 200
              /\ response'.record = NoRow
              /\ response'.history = << >>
      ]_vars

\* A search for plate A1 answered while the table holds records of another
\* plate only.
C12_Witness ==
    /\ response.code = 200
    /\ response.method = "POST"
    /\ response.plate = <<"A", "1">>
    /\ response.record = NoRow
    /\ response.history = << >>
    /\ Len(violations) >= 1

\* C15: a step that stores a record of plate P leaves the records of every
\* other plate as they were, and the count a submission computes for P is
\* one more than the count of P's own latest record (1 when P has none).
C15_PlatesIndependent ==
    [][/\ violations' # violations =>
             \A plate \in StoredPlates :
                 plate # RowPlate(violations'[Len(violations')]) =>
                     PlateRows(violations', plate) = PlateRows(violations, plate)
       /\ \A p \in Officers :
             (pc[p] = "select" /\ pc'[p] = "insert") =>
                 req'[p].warnings =
                     IF PlateRows(violations, req[p].plate) = << >> THEN 1
                     ELSE RowWarnings(
                              PlateRows(violations, req[p].plate)
                                  [Len(PlateRows(violations, req[p].plate))]) + 1
      ]_vars

\* A record of another plate lies between the first and the second record
\* of a plate, and the second still has count 2.
C15_Witness ==
    \E i, j, k \in Rows :
        /\ i < j /\ j < k
        /\ RowPlate(violations[i]) = RowPlate(violations[k])
        /\ RowPlate(violations[j]) # RowPlate(violations[i])
        /\ RowWarnings(violations[j]) = 1
        /\ RowWarnings(violations[k]) = 2

\* A plate without lowercase letters.
IsUpperCase(s) == \A i \in 1..Len(s) : s[i] \notin {"a", "b"}

\* A plate with its letters folded to lowercase.
CaseFold(s) ==
    [i \in 1..Len(s) |->
        CASE s[i] = "A" -> "a"
          [] s[i] = "B" -> "b"
          [] OTHER -> s[i]]

\* C16: stored plates are uppercase, and plates that differ in letter case
\* only are one plate: with citations submitted one after another
\* (SpecSerial), a citation typed in one case after a citation typed in the
\* other (the two officers type a1 and A1) gets the higher count; a search
\* returns the records of all plates equal to the searched one up to case.
C16_PlatesCaseInsensitive ==
    /\ \A i \in Rows : IsUpperCase(RowPlate(violations[i]))
    /\ \A i, j \in Rows :
          (/\ i < j
           /\ RowOfficer(violations[i]) # RowOfficer(violations[j])
           /\ CaseFold(RowPlate(violations[i]))
                 = CaseFold(RowPlate(violations[j])))
            => RowWarnings(violations[i]) < RowWarnings(violations[j])
    /\ (response.code = 200 /\ response.method = "POST") =>
          /\ IsUpperCase(response.plate)
          /\ {response.history[k] : k \in 1..Len(response.history)} =
                {violations[i] : i \in {n \in Rows :
                     CaseFold(RowPlate(violations[n]))
                         = CaseFold(response.plate)}}

\* bob's citation typed A1 has count 1 and alice's later one typed a1 has
\* count 2 and is stored as A1.
C16_Witness ==
    \E i, j \in Rows :
        /\ i < j
        /\ RowOfficer(violations[i]) = "bob"
        /\ RowWarnings(violations[i]) = 1
        /\ RowOfficer(violations[j]) = "alice"
        /\ RowPlate(violations[j]) = <<"A", "1">>
        /\ RowWarnings(violations[j]) = 2

\* C17: once the latest record (highest id) of a plate has status TOW, the
\* latest record of that plate has status TOW after every later step.
C17_TowIrreversible ==
    [][\A plate \in StoredPlates :
          RowStatus(Latest(violations, plate)) = "TOW" =>
              RowStatus(Latest(violations', plate)) = "TOW"
      ]_vars

\* C18: when a search returns a latest record, the first record of the
\* history it returns is that record.
C18_HistoryHeadIsLatest ==
    (response.code = 200 /\ response.method = "POST"
        /\ response.record # NoRow) =>
        /\ response.history # << >>
        /\ response.history[1] = response.record

\* A step of officer p inside the tow_report handler.
TowStep(p) == pc[p] # pc'[p] /\ "send" \in {pc[p], pc'[p]}

\* C13: every request for a tow authorization is answered with a document,
\* whatever the latest status of the plate, and no step of the handler
\* changes the violations table.
C13_TowNoStatusCheck ==
    [][/\ response'.route = "/tow" =>
             (response'.code = 200 /\ response'.doc # NoDoc)
       /\ (\E p \in Officers : TowStep(p)) =>
             (violations' = violations /\ pending' = pending)
      ]_vars

\* A document was sent for a plate whose latest status is WARNING.
C13_Witness ==
    /\ response.route = "/tow"
    /\ response.doc # NoDoc
    /\ Latest(violations, response.plate) # NoRow
    /\ RowStatus(Latest(violations, response.plate)) = "WARNING"

\* C14: the document a caller receives names the plate the caller asked for
\* and the caller as issuing officer.
C14_DocumentNamesCaller ==
    (response.route = "/tow" /\ response.code = 200) =>
        /\ response.doc # NoDoc
        /\ response.doc.plate = response.plate
        /\ response.doc.officer = response.user

====
